---- MODULE Spec2Model ----
(***************************************************************************)
(* Model of the MCP file query server (src/server.py).                     *)
(*                                                                         *)
(* A path is a sequence of components; an absolute path starts with "/".   *)
(* A tool request occupies one slot of Reqs from its invocation until its  *)
(* handler returns or raises; requests may overlap, as the handlers are    *)
(* coroutines of one event loop.  A step of the model is what a coroutine  *)
(* does between two suspension points.                                     *)
(***************************************************************************)
EXTENDS Integers, Sequences, FiniteSets, TLC

\* ------------------------------------------------------------------ bounds
\* Number of tool requests of one behaviour (request r is the r-th invoked).
NumReq == 2

\* ------------------------------------------------- constants of the program
\* The three capacities below are the program's constants, scaled down so
\* that batches larger than the capacity, trees larger than the listing and
\* trees larger than the overview sample are explored.
\* server.py:53 sets 50.
MAX_CONCURRENT_TASKS == 2
\* server.py:56 sets 100.
OVERVIEW_MAX_FILES == 1
\* server.py:55 sets 100.
MAX_FILES_FOR_DIR_TREE == 2
\* server.py:83, stop_after_attempt(3).
STOP_AFTER_ATTEMPT == 3

OVERVIEW_FILENAME == "_OVERVIEW.json"

Reqs == 1..NumReq

\* --------------------------------------------------------- the file system
\* root_directory, resolved at construction (server.py:65).
Root == <<"/", "data">>

FileA == <<"a.txt">>
FileB == <<"b.log">>
FileC == <<"sub", "c.txt">>
\* A regular file that exists outside the root, in the root's parent.
OutsideAbs == <<"/", "x.txt">>

\* rglob("*") visits the tree in a fixed traversal order.
TraversalOrder == <<FileA, FileB, FileC>>

\* The trees the server may be started on (regular files, relative to Root).
TreeConfigs == {{FileA, FileB, FileC}, {FileA, FileB}, {}}

\* Files whose open()/read() fails (file_to_part returns None).
Unreadable == {Root \o FileB}

Range(s) == {s[i] : i \in DOMAIN s}

IsAbsolute(p) == Len(p) > 0 /\ p[1] = "/"

DropDots(p) ==
    LET keep(c) == c # "." IN SelectSeq(p, keep)

\* pathlib's root_directory / filename: an absolute right operand replaces
\* the left one; "." components are dropped, ".." components are kept.
Join(base, ref) == IF IsAbsolute(ref) THEN ref ELSE base \o DropDots(ref)

\* What the operating system does with ".." when it looks a path up.
RECURSIVE Collapse(_, _)
Collapse(p, acc) ==
    IF p = <<>> THEN acc
    ELSE IF Head(p) = ".."
         THEN Collapse(Tail(p), IF Len(acc) > 1 THEN SubSeq(acc, 1, Len(acc) - 1) ELSE acc)
         ELSE Collapse(Tail(p), Append(acc, Head(p)))

Resolve(p) == Collapse(p, <<>>)

IsPrefix(a, b) == Len(a) <= Len(b) /\ SubSeq(b, 1, Len(a)) = a

\* The file lies strictly inside the root.
InsideRoot(p) == IsPrefix(Root, Resolve(p)) /\ Len(Resolve(p)) > Len(Root)

\* ------------------------------------------------------------------- state
VARIABLES
    tree,          \* regular files under the root, relative to it (no sidecar)
    sidecar,       \* the file Root/_OVERVIEW.json
    pc,            \* per request: "idle", "gather", "returned", "raised"
    op,            \* per request: the tool invoked
    request,       \* per request: the arguments of the tool
    filenames,     \* per request: the filenames given to map_query_files
    target_files,  \* per request: map_query_files' target_files
    units,         \* per request: the tasks of map_query_files, one per target
    semaphore,     \* per request: the value of the batch's asyncio.Semaphore
    enumerated,    \* per request: directory_tree_full() was iterated
    batch,         \* per request: what map_query_files returned
    out            \* per request: what the tool handler handed to the transport

vars == <<tree, sidecar, pc, op, request, filenames, target_files, units, semaphore, enumerated, batch, out>>

\* -------------------------------------------------------- sidecar and JSON
NoFile == [state |-> "absent"]
\* A sidecar whose content json.load rejects.
CorruptFile == [state |-> "corrupt"]

\* json.dump / json.dumps of a value with an indent.
Dumps(value, indent) == [state |-> "json", indent |-> indent, value |-> value]

\* Fault injection: a loader that rejects every sidecar.
NeverLoads(file) == FALSE

\* json.load: the value of a JSON text, whatever its indent.
CanLoad(file) == file.state = "json"

\* Fault injection: a load that yields an empty mapping whatever the file
\* holds.
LoadsEmpty(file) == <<>>

\* The value json.load returns.
Loads(file) == file.value

SidecarPath == Root \o <<OVERVIEW_FILENAME>>

\* Regular files that exist, as absolute paths.
RegularFiles(t, sc) ==
    {Root \o f : f \in t} \cup {OutsideAbs}
        \cup (IF sc.state = "absent" THEN {} ELSE {SidecarPath})

\* Path.is_file(): the operating system resolves the path.
IsFile(p, t, sc) == Resolve(p) \in RegularFiles(t, sc)

Directories == {<<"/">>, Root, Root \o <<"sub">>}

\* Path.is_dir()
IsDir(p) == Resolve(p) \in Directories

\* PurePath.relative_to(root_directory): lexical, raises ValueError when the
\* root's components are not a prefix of the path's.
CanRelativeTo(p) == IsPrefix(Root, p)
RelativeTo(p) == SubSeq(p, Len(Root) + 1, Len(p))

\* root_directory.rglob("*") restricted to is_file(), relative to the root.
Rglob(t, sc) ==
    LET present(f) == f \in t
    IN (IF sc.state = "absent" THEN <<>> ELSE <<<<OVERVIEW_FILENAME>>>>)
           \o SelectSeq(TraversalOrder, present)

\* server.py:120, the sidecar is left out of the listing.
NotOverview(rel) == rel # <<OVERVIEW_FILENAME>>

\* FileQueryService.directory_tree_full
directory_tree_full(t, sc) == SelectSeq(Rglob(t, sc), NotOverview)

\* ---------------------------------------------------- inference primitive
Text == "text"
ErrRead == "Error: Could not read file"
ErrBackend == "Error processing file: backend error"
ErrEmpty == "Error processing file: list index out of range"
TaskFailed == "Task failed: RetryError"
IsErrorString(v) == v \in {ErrRead, ErrBackend, ErrEmpty, TaskFailed}

\* What the backend does with one generate_content call: it answers with a
\* candidate, raises, or answers with no candidate.
Responses == {"ok", "error", "empty"}

Return(v) == [kind |-> "return", value |-> v]
Raise(v) == [kind |-> "raise", value |-> v]
NoOutcome == [kind |-> "none", value |-> "none"]

\* FileQueryService.file_to_part: None when the file cannot be read.
Readable(p) == Resolve(p) \notin Unreadable

\* The body of _process_single_file after the backend answered: the
\* try/except turns every exception into a returned error string.
BackendBody(resp) ==
    IF resp = "ok" THEN Return(Text)
    ELSE IF resp = "error" THEN Return(ErrBackend)
    ELSE Return(ErrEmpty)

\* The body of _process_single_file for a file that cannot be read.
UnreadableBody == Return(ErrRead)

\* tenacity's retry(stop=stop_after_attempt(3)) around one attempt's outcome:
\* an attempt that returned ends the call, one that raised is repeated
\* until the attempt ceiling, and then RetryError is raised.
RetryDecision(outcome, att) ==
    IF outcome.kind = "raise"
    THEN IF att < STOP_AFTER_ATTEMPT THEN "retry" ELSE "giveup"
    ELSE "done"

\* ----------------------------------------------------------------- batches
Waiting == [st |-> "waiting", att |-> 0, calls |-> 0, resp |-> "none", res |-> NoOutcome]

NewUnits(targets) == [i \in 1..Len(targets) |-> Waiting]

\* Python dicts keyed by str(relative path); "error" is the key of the
\* top-level error results.
EmptyDict == <<>>

\* Fault injection: an assignment that keeps the value a key already has.
PutKeepsFirst(d, k, v) == [x \in (DOMAIN d) \cup {k} |-> IF x \in DOMAIN d THEN d[x] ELSE v]

\* results[k] = v
Put(d, k, v) == [x \in (DOMAIN d) \cup {k} |-> IF x = k THEN v ELSE d[x]]
ErrKey == <<"error">>
ErrorDict(msg) == Put(EmptyDict, ErrKey, msg)
ErrNotList == "Filenames must be a list of strings"
ErrNoValid == "No valid target files found"

NoBatch == [kind |-> "none", value |-> EmptyDict]
Returned(d) == [kind |-> "dict", value |-> d]
Raised == [kind |-> "raise", value |-> EmptyDict]

\* server.py:128-132, the entries of filenames that are regular files.
ResolveTargets(names, t, sc) ==
    LET joined == [i \in 1..Len(names) |-> Join(Root, names[i])]
        exists(p) == IsFile(p, t, sc)
    IN SelectSeq(joined, exists)

\* Fault injection: the empty working set is not noticed.
NeverEmpty(targets) == FALSE

\* server.py:134
NoTargets(targets) == targets = <<>>

\* map_query_files up to its first await: it returns at once (done) or has
\* created one task per target file.
MapQueryFilesPrefix(arg, t, sc) ==
    IF ~arg.list
    THEN [done |-> TRUE, result |-> Returned(ErrorDict(ErrNotList)), targets |-> <<>>]
    ELSE LET targets == ResolveTargets(arg.items, t, sc)
         IN IF NoTargets(targets)
            THEN [done |-> TRUE, result |-> Returned(ErrorDict(ErrNoValid)), targets |-> <<>>]
            ELSE [done |-> FALSE, result |-> NoBatch, targets |-> targets]

\* Fault injection: a semaphore that admits every task.
CanAcquireAlways(value) == TRUE

\* asyncio.Semaphore.acquire does not block while the value is positive.
CanAcquire(value) == value > 0

\* The waiters of the semaphore are served first come, first served, and
\* the tasks were created in the order of target_files.
FirstWaiting(us) ==
    CHOOSE i \in DOMAIN us :
        /\ us[i].st = "waiting"
        /\ \A j \in DOMAIN us : j < i => us[j].st # "waiting"

InFlight(us) == {i \in DOMAIN us : us[i].st = "inflight"}

\* One attempt of _process_single_file ended with outcome: what the retry
\* wrapper makes of the task.
Settle(u, resp, outcome) ==
    LET d == RetryDecision(outcome, u.att)
    IN IF d = "retry"
       THEN [u EXCEPT !.att = u.att + 1, !.calls = u.calls + 1, !.resp = resp]
       ELSE [u EXCEPT !.st = "done", !.resp = resp,
                      !.res = IF d = "giveup" THEN Raise(TaskFailed) ELSE outcome]

\* Fault injection: a task that ends with an error cancels the tasks of the
\* batch that are not done (the behaviour of a task group).
SettleInCancelling(us, i, resp, outcome) ==
    [j \in DOMAIN us |->
        IF j = i THEN Settle(us[i], resp, outcome)
        ELSE IF outcome.value # Text /\ us[j].st # "done"
             THEN [us[j] EXCEPT !.st = "done", !.res = Raise("CancelledError")]
             ELSE us[j]]

\* An attempt of task i ended: the other tasks of the batch are left alone.
SettleIn(us, i, resp, outcome) == [us EXCEPT ![i] = Settle(us[i], resp, outcome)]

\* Fault injection: a wait that resumes at the first task done.
GatherFirstCompleted(us) == \E i \in DOMAIN us : us[i].st = "done"

\* asyncio.gather(*tasks, return_exceptions=True) resumes its awaiter when
\* every task is done.
GatherComplete(us) == \A i \in DOMAIN us : us[i].st = "done"

\* server.py:152-158
RECURSIVE FormatResults(_, _, _, _)
FormatResults(targets, us, i, d) ==
    IF i > Len(targets) THEN Returned(d)
    ELSE IF ~CanRelativeTo(targets[i]) THEN Raised
    ELSE FormatResults(targets, us, i + 1,
             Put(d, RelativeTo(targets[i]),
                 IF us[i].res.kind = "raise" THEN TaskFailed ELSE us[i].res.value))

\* ------------------------------------------------------------ tool surface
Pending == [kind |-> "pending"]
TextOut(msg) == [kind |-> "text", value |-> msg]
JsonOut(v) == [kind |-> "json", json |-> Dumps(v, 2)]
\* An exception that left the handler.
ExceptionOut == [kind |-> "exception"]

\* What happens to the sidecar when get_overview writes it.
WriteOutcomes == {"ok", "denied", "partial"}

\* Fault injection: the overview is written from the wrong variable, an
\* empty mapping.
SaveWrongValue(sc, value, w) ==
    IF w = "ok" THEN Dumps(EmptyDict, 4)
    ELSE IF w = "denied" THEN sc
    ELSE CorruptFile

\* server.py:314-318: open(overview_path, "w") and json.dump, best effort.
Save(sc, value, w) ==
    IF w = "ok" THEN Dumps(value, 4)
    ELSE IF w = "denied" THEN sc
    ELSE CorruptFile

\* Fault injection: the write of the overview is not guarded, a failed
\* write escapes get_overview.
HandlerEndWriteRaises(r, o, result, sc, w) ==
    /\ batch' = [batch EXCEPT ![r] = result]
    /\ IF result.kind = "raise" \/ (o = "get_overview" /\ w # "ok")
       THEN /\ pc' = [pc EXCEPT ![r] = "raised"]
            /\ out' = [out EXCEPT ![r] = ExceptionOut]
            /\ sidecar' = IF w = "partial" /\ o = "get_overview" THEN CorruptFile ELSE sc
       ELSE /\ pc' = [pc EXCEPT ![r] = "returned"]
            /\ out' = [out EXCEPT ![r] = JsonOut(result.value)]
            /\ sidecar' = IF o = "get_overview" THEN Save(sc, result.value, w) ELSE sc

\* The rest of a handler once map_query_files ended with result.
HandlerEnd(r, o, result, sc, w) ==
    /\ batch' = [batch EXCEPT ![r] = result]
    /\ IF result.kind = "raise"
       THEN /\ pc' = [pc EXCEPT ![r] = "raised"]
            /\ out' = [out EXCEPT ![r] = ExceptionOut]
            /\ sidecar' = sc
       ELSE /\ pc' = [pc EXCEPT ![r] = "returned"]
            /\ out' = [out EXCEPT ![r] = JsonOut(result.value)]
            /\ sidecar' = IF o = "get_overview" THEN Save(sc, result.value, w) ELSE sc

\* A handler calls map_query_files(query, arg) and runs to its first await.
CallMapQueryFiles(r, o, arg, enum, sc, w) ==
    LET pre == MapQueryFilesPrefix(arg, tree, sc)
    IN /\ op' = [op EXCEPT ![r] = o]
       /\ filenames' = [filenames EXCEPT ![r] = arg]
       /\ enumerated' = [enumerated EXCEPT ![r] = enum]
       /\ target_files' = [target_files EXCEPT ![r] = pre.targets]
       /\ units' = [units EXCEPT ![r] = NewUnits(pre.targets)]
       /\ IF pre.done
          THEN /\ HandlerEnd(r, o, pre.result, sc, w)
               /\ UNCHANGED semaphore
          ELSE /\ semaphore' = [semaphore EXCEPT ![r] = MAX_CONCURRENT_TASKS]
               /\ pc' = [pc EXCEPT ![r] = "gather"]
               /\ sidecar' = sc
               /\ UNCHANGED <<batch, out>>
       /\ UNCHANGED tree

AllTools ==
    {"directory_tree", "ls", "map_query_tool", "map_query_tool_regex",
     "map_query_tool_regex_sampled", "get_overview"}

\* The client explored: a first request of any tool with any of the
\* arguments below and, during or after it, get_overview requests.
ToolsOf(r) == IF r = 1 THEN AllTools ELSE {"get_overview"}

\* The transport invokes the requests in order; their handlers may overlap.
CanInvoke(r, tool) ==
    /\ pc[r] = "idle"
    /\ IF r = 1 THEN TRUE ELSE pc[r - 1] # "idle"
    /\ tool \in ToolsOf(r)

ListArg(names) == [list |-> TRUE, items |-> names]
NotAList == [list |-> FALSE, items |-> <<>>]

\* The arguments of a tool request.
NoArgs == [names |-> NotAList, pat |-> "", size |-> 0, path |-> <<>>]

\* --------------------------------------------------------- selection layer
PatTxt == "\\.txt$"
PatAny == "."
PatNone == "^$"
\* An unterminated character set: re.compile raises re.error.
PatBad == "["
Patterns == {PatTxt, PatAny, PatNone, PatBad}

\* Fault injection: a compile step that accepts every pattern.
CompilesAlways(pat) == TRUE

\* re.compile(filename_regex) succeeds.
Compiles(pat) == pat # PatBad

TxtNames == {"a.txt", "c.txt", "x.txt"}

\* regex.search(str(relative path)) finds a match.
Search(pat, rel) ==
    IF pat = PatTxt THEN rel[Len(rel)] \in TxtNames
    ELSE IF pat = PatAny THEN Len(rel) > 0
    ELSE FALSE

Filter(pat, files) ==
    LET hit(f) == Search(pat, f) IN SelectSeq(files, hit)

\* random.shuffle leaves any permutation of the list.
Shuffles(xs) ==
    {[i \in 1..Len(xs) |-> xs[q[i]]] : q \in Permutations(1..Len(xs))}

Min(a, b) == IF a <= b THEN a ELSE b
Max(a, b) == IF a >= b THEN a ELSE b

\* The Python slice xs[:n], for any integer n.
SliceTo(xs, n) ==
    SubSeq(xs, 1, IF n >= 0 THEN Min(n, Len(xs)) ELSE Max(Len(xs) + n, 0))

\* Largest sample_size tried; the smallest is -1.
MaxSample == 3
SampleSizes == (0 - 1)..MaxSample

\* The explicit filename lists tried.
Refs == {FileA, FileB, FileC, <<"nope.txt">>, <<"sub">>, <<"..", "x.txt">>, OutsideAbs}
NameLists ==
    {<<>>}
      \cup {<<x>> : x \in Refs}
      \cup {<<FileA, FileB, FileC>>, <<FileA, FileC, FileB>>, <<FileA, FileA>>,
            <<FileA, FileC, FileA>>, <<FileA, <<"nope.txt">>, FileC>>, <<FileA, OutsideAbs>>,
            <<FileC, <<"..", "x.txt">>>>}

\* ---------------------------------------------------------------- actions
\* map_query_tool(query, filenames), server.py:167-180
MapQueryTool(r, arg) ==
    /\ CanInvoke(r, "map_query_tool")
    /\ request' = [request EXCEPT ![r] = [NoArgs EXCEPT !.names = arg]]
    /\ CallMapQueryFiles(r, "map_query_tool", arg, FALSE, sidecar, "ok")

\* map_query_tool_regex(query, filename_regex), server.py:183-203
MapQueryToolRegex(r, pat) ==
    /\ CanInvoke(r, "map_query_tool_regex")
    /\ request' = [request EXCEPT ![r] = [NoArgs EXCEPT !.pat = pat]]
    /\ IF Compiles(pat)
       THEN CallMapQueryFiles(r, "map_query_tool_regex",
                ListArg(Filter(pat, directory_tree_full(tree, sidecar))),
                TRUE, sidecar, "ok")
       ELSE /\ op' = [op EXCEPT ![r] = "map_query_tool_regex"]
            /\ pc' = [pc EXCEPT ![r] = "returned"]
            /\ out' = [out EXCEPT ![r] = TextOut("Error: Invalid regex pattern")]
            /\ UNCHANGED <<tree, sidecar, filenames, target_files, units, semaphore, enumerated, batch>>

\* map_query_tool_regex_sampled(query, filename_regex, sample_size),
\* server.py:206-233
MapQueryToolRegexSampled(r, pat, sample_size) ==
    /\ CanInvoke(r, "map_query_tool_regex_sampled")
    /\ request' = [request EXCEPT ![r] = [NoArgs EXCEPT !.pat = pat, !.size = sample_size]]
    /\ IF Compiles(pat)
       THEN \E shuffled \in Shuffles(Filter(pat, directory_tree_full(tree, sidecar))) :
                CallMapQueryFiles(r, "map_query_tool_regex_sampled",
                    ListArg(SliceTo(shuffled, sample_size)), TRUE, sidecar, "ok")
       ELSE /\ op' = [op EXCEPT ![r] = "map_query_tool_regex_sampled"]
            /\ pc' = [pc EXCEPT ![r] = "returned"]
            /\ out' = [out EXCEPT ![r] = TextOut("Error: Invalid regex pattern")]
            /\ UNCHANGED <<tree, sidecar, filenames, target_files, units, semaphore, enumerated, batch>>

\* get_overview(), server.py:282-320, up to its first await
GetOverview(r, w) ==
    /\ CanInvoke(r, "get_overview")
    /\ request' = [request EXCEPT ![r] = NoArgs]
    /\ IF CanLoad(sidecar)
       THEN /\ op' = [op EXCEPT ![r] = "get_overview"]
            /\ pc' = [pc EXCEPT ![r] = "returned"]
            /\ out' = [out EXCEPT ![r] = JsonOut(Loads(sidecar))]
            /\ UNCHANGED <<tree, sidecar, filenames, target_files, units, semaphore, enumerated, batch>>
       ELSE \E shuffled \in Shuffles(directory_tree_full(tree, NoFile)) :
                CallMapQueryFiles(r, "get_overview",
                    ListArg(SliceTo(shuffled, OVERVIEW_MAX_FILES)), TRUE, NoFile, w)

\* itertools.islice(directory_tree_full(), MAX_FILES_FOR_DIR_TREE)
Islice(files, n) == SubSeq(files, 1, Min(n, Len(files)))

\* directory_tree(), server.py:236-251
DirectoryTree(r) ==
    /\ CanInvoke(r, "directory_tree")
    /\ request' = [request EXCEPT ![r] = NoArgs]
    /\ LET files == Islice(directory_tree_full(tree, sidecar), MAX_FILES_FOR_DIR_TREE)
       IN out' = [out EXCEPT ![r] =
              JsonOut([truncated |-> Len(files) = MAX_FILES_FOR_DIR_TREE, files |-> files])]
    /\ op' = [op EXCEPT ![r] = "directory_tree"]
    /\ pc' = [pc EXCEPT ![r] = "returned"]
    /\ enumerated' = [enumerated EXCEPT ![r] = TRUE]
    /\ UNCHANGED <<tree, sidecar, filenames, target_files, units, semaphore, batch>>

\* The paths given to ls.
LsPaths == {<<>>, <<"sub">>, <<"nope">>, <<"a.txt">>}

\* Every name a listing can hold, directories with their trailing "/", in
\* the order of sorted().
SortedNames == <<"_OVERVIEW.json", "a.txt", "b.log", "c.txt", "data/", "sub/", "x.txt">>

DirName(d) == IF d[Len(d)] = "sub" THEN "sub/" ELSE "data/"

\* target_path.iterdir() with the "/" added to directories, server.py:271-275
Items(dir, t, sc) ==
    {f[Len(f)] : f \in {g \in RegularFiles(t, sc) : SubSeq(g, 1, Len(g) - 1) = dir}}
        \cup {DirName(d) : d \in {e \in Directories \ {<<"/">>} : SubSeq(e, 1, Len(e) - 1) = dir}}

\* sorted(items)
Sorted(items) ==
    LET in(n) == n \in items IN SelectSeq(SortedNames, in)

\* ls(path), server.py:254-279
Ls(r, path) ==
    /\ CanInvoke(r, "ls")
    /\ request' = [request EXCEPT ![r] = [NoArgs EXCEPT !.path = path]]
    /\ LET target_path == Join(Root, path)
       IN out' = [out EXCEPT ![r] =
              IF ~IsDir(target_path)
              THEN TextOut("Error: not a directory or does not exist")
              ELSE JsonOut(Sorted(Items(Resolve(target_path), tree, sidecar)))]
    /\ op' = [op EXCEPT ![r] = "ls"]
    /\ pc' = [pc EXCEPT ![r] = "returned"]
    /\ UNCHANGED <<tree, sidecar, filenames, target_files, units, semaphore, enumerated, batch>>

\* A task of the batch enters `async with semaphore` and starts
\* _process_single_file: an unreadable file ends the task at once, otherwise
\* the task awaits the backend.  server.py:140-142, 88-107
Acquire(r) ==
    /\ pc[r] = "gather"
    /\ \E i \in DOMAIN units[r] : units[r][i].st = "waiting"
    /\ CanAcquire(semaphore[r])
    /\ LET i == FirstWaiting(units[r])
           u == [units[r][i] EXCEPT !.att = 1]
       IN IF Readable(target_files[r][i])
          THEN /\ units' = [units EXCEPT ![r][i] = [u EXCEPT !.st = "inflight", !.calls = 1]]
               /\ semaphore' = [semaphore EXCEPT ![r] = @ - 1]
          ELSE /\ units' = [units EXCEPT ![r] =
                              SettleIn([units[r] EXCEPT ![i] = u], i, "none", UnreadableBody)]
               /\ UNCHANGED semaphore
    /\ UNCHANGED <<tree, sidecar, pc, op, request, filenames, target_files, enumerated, batch, out>>

\* Fault injection: the permit is given back only when the call returned
\* text, not on the error paths.
BackendRespondsLeak(r, i, resp) ==
    /\ pc[r] = "gather"
    /\ i \in InFlight(units[r])
    /\ LET us == SettleIn(units[r], i, resp, BackendBody(resp))
       IN /\ units' = [units EXCEPT ![r] = us]
          /\ semaphore' = [semaphore EXCEPT ![r] =
                 IF us[i].st = "done" /\ resp = "ok" THEN @ + 1 ELSE @]
    /\ UNCHANGED <<tree, sidecar, pc, op, request, filenames, target_files, enumerated, batch, out>>

\* The backend answers the call of task i; the task returns and leaves the
\* semaphore, or the retry wrapper calls again.  server.py:83-110
BackendResponds(r, i, resp) ==
    /\ pc[r] = "gather"
    /\ i \in InFlight(units[r])
    /\ LET us == SettleIn(units[r], i, resp, BackendBody(resp))
       IN /\ units' = [units EXCEPT ![r] = us]
          /\ semaphore' = [semaphore EXCEPT ![r] = IF us[i].st = "done" THEN @ + 1 ELSE @]
    /\ UNCHANGED <<tree, sidecar, pc, op, request, filenames, target_files, enumerated, batch, out>>

\* gather resumes map_query_files, which formats the results and returns to
\* the handler; the handler runs to its end.  server.py:149-160, 313-320
GatherDone(r, w) ==
    /\ pc[r] = "gather"
    /\ GatherComplete(units[r])
    /\ HandlerEnd(r, op[r], FormatResults(target_files[r], units[r], 1, EmptyDict), sidecar, w)
    /\ UNCHANGED <<tree, op, request, filenames, target_files, units, semaphore, enumerated>>

Init ==
    /\ tree \in TreeConfigs
    /\ sidecar \in {NoFile, CorruptFile}
    /\ pc = [r \in Reqs |-> "idle"]
    /\ op = [r \in Reqs |-> "none"]
    /\ request = [r \in Reqs |-> NoArgs]
    /\ filenames = [r \in Reqs |-> NotAList]
    /\ target_files = [r \in Reqs |-> <<>>]
    /\ units = [r \in Reqs |-> <<>>]
    /\ semaphore = [r \in Reqs |-> 0]
    /\ enumerated = [r \in Reqs |-> FALSE]
    /\ batch = [r \in Reqs |-> NoBatch]
    /\ out = [r \in Reqs |-> Pending]

Next ==
    \E r \in Reqs :
        \/ \E arg \in {ListArg(n) : n \in NameLists} \cup {NotAList} : MapQueryTool(r, arg)
        \/ \E pat \in Patterns : MapQueryToolRegex(r, pat)
        \/ \E pat \in Patterns, n \in SampleSizes : MapQueryToolRegexSampled(r, pat, n)
        \/ \E w \in WriteOutcomes : GetOverview(r, w)
        \/ DirectoryTree(r)
        \/ \E path \in LsPaths : Ls(r, path)
        \/ Acquire(r)
        \/ \E i \in DOMAIN units[r], resp \in Responses : BackendResponds(r, i, resp)
        \/ \E w \in WriteOutcomes : GatherDone(r, w)

Spec == Init /\ [][Next]_vars

\* -------------------------------------------------------------- properties
\* map_query_files was called by the handler of request r.
\* The event loop runs every task that is ready: a task that can enter the
\* semaphore does, a gather whose tasks are all done resumes; and every
\* inference call in flight finishes.
SpecFair ==
    /\ Init /\ [][Next]_vars
    /\ \A r \in Reqs :
           /\ WF_vars(Acquire(r))
           /\ WF_vars(\E i \in DOMAIN units[r], resp \in Responses : BackendResponds(r, i, resp))
           /\ WF_vars(\E w \in WriteOutcomes : GatherDone(r, w))

Called(r) == pc[r] = "gather" \/ batch[r].kind # "none"

Ended(r) == pc[r] \in {"returned", "raised"}

\* Backend calls made for request r.
RECURSIVE SumCalls(_, _)
SumCalls(us, i) == IF i > Len(us) THEN 0 ELSE us[i].calls + SumCalls(us, i + 1)
InferenceCalls(r) == SumCalls(units[r], 1)

Distinct(xs) == \A i, j \in DOMAIN xs : xs[i] = xs[j] => i = j

\* The task read its file and the backend answered with a candidate.
Succeeded(r, i) == Readable(target_files[r][i]) /\ units[r][i].resp = "ok"

\* C1: within one batch the number of tasks inside the inference call never
\* exceeds MAX_CONCURRENT_TASKS, also for batches larger than the cap.
C1_ConcurrencyBound ==
    \A r \in Reqs : Cardinality(InFlight(units[r])) <= MAX_CONCURRENT_TASKS

\* C1 witness: a batch larger than the cap runs at the cap while a task waits.
C1_Witness ==
    \E r \in Reqs :
        /\ Len(units[r]) > MAX_CONCURRENT_TASKS
        /\ Cardinality(InFlight(units[r])) = MAX_CONCURRENT_TASKS
        /\ \E i \in DOMAIN units[r] : units[r][i].st = "waiting"

\* C2: a batch whose working set holds N >= 1 files ends by returning a
\* mapping with exactly N entries, one keyed by the relative path of each
\* resolved file, holding the text of a success and an error string of a
\* failure.  (N counts the distinct resolved paths.)
C2_ExactlyNEntries ==
    \A r \in Reqs :
        (Ended(r) /\ target_files[r] # <<>>) =>
            /\ batch[r].kind = "dict"
            /\ Cardinality(DOMAIN batch[r].value) = Cardinality(Range(target_files[r]))
            /\ \A i \in DOMAIN target_files[r] :
                   /\ CanRelativeTo(target_files[r][i])
                   /\ RelativeTo(target_files[r][i]) \in DOMAIN batch[r].value
            /\ \A k \in DOMAIN batch[r].value :
                   batch[r].value[k] = Text \/ IsErrorString(batch[r].value[k])

\* C3: a task that fails never cancels or changes the outcome of a sibling
\* and never makes the batch fail: every settled task holds the outcome of
\* its own file and its own backend answer, the batch raises only for a
\* target outside the root's subtree (whatever the outcomes are), and a
\* returned mapping over distinct paths holds the text of every success and
\* an error string of every failure.
C3_FailureIsolation ==
    \A r \in Reqs :
        /\ \A i \in DOMAIN units[r] :
               units[r][i].st = "done" =>
                   /\ units[r][i].res.kind = "return"
                   /\ (units[r][i].res.value = Text) <=> Succeeded(r, i)
                   /\ ~Succeeded(r, i) => IsErrorString(units[r][i].res.value)
        /\ pc[r] = "raised" => \E i \in DOMAIN target_files[r] : ~CanRelativeTo(target_files[r][i])
        /\ (pc[r] = "returned" /\ units[r] # <<>> /\ Distinct(target_files[r])) =>
               /\ Cardinality(DOMAIN batch[r].value) = Len(units[r])
               /\ \A i \in DOMAIN units[r] :
                      batch[r].value[RelativeTo(target_files[r][i])] =
                          (IF Succeeded(r, i) THEN Text ELSE units[r][i].res.value)

\* C3 witness: a returned batch of three distinct files, one of them failed,
\* holds two texts and one error string.
C3_Witness ==
    \E r \in Reqs :
        /\ pc[r] = "returned"
        /\ Len(units[r]) = 3
        /\ Distinct(target_files[r])
        /\ Cardinality({i \in DOMAIN units[r] : Succeeded(r, i)}) = 2
        /\ Cardinality({k \in DOMAIN batch[r].value : batch[r].value[k] = Text}) = 2
        /\ Cardinality({k \in DOMAIN batch[r].value : IsErrorString(batch[r].value[k])}) = 1

\* C4: a backend call that fails is attempted again, up to 3 attempts and
\* never more; a backend failure is reported for a file only after its third
\* failed attempt.
C4_RetryUpToThree ==
    \A r \in Reqs : \A i \in DOMAIN units[r] :
        /\ units[r][i].att <= STOP_AFTER_ATTEMPT
        /\ (units[r][i].st = "done" /\ units[r][i].res.value \in {ErrBackend, ErrEmpty}) =>
               units[r][i].att = STOP_AFTER_ATTEMPT

\* C5: map_query_files returns only after every task of the batch settled:
\* when the handler has ended no task waits or is in flight, and every
\* resolved file has its entry in the returned mapping.
C5_ReturnsAfterAllSettle ==
    \A r \in Reqs :
        Ended(r) =>
            /\ \A i \in DOMAIN units[r] : units[r][i].st = "done"
            /\ batch[r].kind = "dict" =>
                   \A i \in DOMAIN target_files[r] :
                       RelativeTo(target_files[r][i]) \in DOMAIN batch[r].value

\* C5 witness: a batch larger than the cap has returned.
C5_Witness ==
    \E r \in Reqs :
        /\ pc[r] = "returned"
        /\ Len(units[r]) > MAX_CONCURRENT_TASKS
        /\ \A i \in DOMAIN units[r] : units[r][i].st = "done"
        /\ \E i \in DOMAIN units[r] : units[r][i].calls > 0

\* C6: no inference call is made on a file outside the root: only files
\* strictly inside the root enter the working set.
C6_NoInferenceOutsideRoot ==
    \A r \in Reqs : \A i \in DOMAIN units[r] :
        units[r][i].calls > 0 => InsideRoot(target_files[r][i])

\* C7: every tool request ends by returning a string; no exception leaves a
\* handler.
C7_NoExceptionEscapes ==
    \A r \in Reqs : pc[r] # "raised" /\ out[r].kind # "exception"

\* No entry of the filenames given to map_query_files is a regular file.
NothingResolves(r) ==
    /\ filenames[r].list
    /\ \A i \in DOMAIN filenames[r].items :
           Resolve(Join(Root, filenames[r].items[i])) \notin RegularFiles(tree, sidecar)

\* C8: when no entry of the requested list is a regular file (an empty list
\* and an empty regex match included), map_query_files returns the single
\* error result "No valid target files found", not an empty or per-file
\* mapping, and no inference call is made.
C8_EmptySelectionTerminal ==
    \A r \in Reqs :
        (Called(r) /\ NothingResolves(r)) =>
            /\ batch[r] = Returned(ErrorDict(ErrNoValid))
            /\ pc[r] = "returned"
            /\ out[r] = JsonOut(ErrorDict(ErrNoValid))
            /\ InferenceCalls(r) = 0
            /\ units[r] = <<>>

\* C8 witness: a list that holds only a nonexistent path, or a regex that
\* matches no file of a tree that holds files, ended with the error result.
C8_Witness ==
    /\ op[1] \in {"map_query_tool", "map_query_tool_regex"}
    /\ tree # {}
    /\ op[1] = "map_query_tool" => filenames[1].items = <<<<"nope.txt">>>>
    /\ op[1] = "map_query_tool_regex" => request[1].pat = PatNone
    /\ NothingResolves(1)
    /\ batch[1] = Returned(ErrorDict(ErrNoValid))

\* C9: the regex tools called with a pattern that does not compile return a
\* pattern error as the whole result, make no inference call and do not
\* enumerate the files.
C9_InvalidRegex ==
    \A r \in Reqs :
        (op[r] \in {"map_query_tool_regex", "map_query_tool_regex_sampled"}
            /\ request[r].pat = PatBad) =>
            /\ pc[r] = "returned"
            /\ out[r] = TextOut("Error: Invalid regex pattern")
            /\ ~enumerated[r]
            /\ ~Called(r)
            /\ InferenceCalls(r) = 0

\* C9 witness: the sampled tool was called with the invalid pattern on a
\* tree that holds files.
C9_Witness ==
    \E r \in Reqs :
        /\ op[r] = "map_query_tool_regex_sampled"
        /\ request[r].pat = PatBad
        /\ request[r].size > 0
        /\ tree # {}
        /\ out[r].kind = "text"

\* The step in which the handler of get_overview is invoked for request r.
InvokesOverview(r) == pc[r] = "idle" /\ pc'[r] # "idle" /\ op'[r] = "get_overview"

\* C10: a get_overview called while the sidecar is present and parses
\* returns the persisted content, makes no inference call and leaves the
\* sidecar unchanged; so does the second of two sequential calls of which
\* the first computed the overview and persisted it.
C10_CacheHit ==
    [][\A r \in Reqs :
          (InvokesOverview(r) /\ sidecar.state = "json") =>
              /\ pc'[r] = "returned"
              /\ out'[r] = JsonOut(sidecar.value)
              /\ sidecar' = sidecar
              /\ units'[r] = <<>>
              /\ ~Called(r)'
              /\ (r > 1 /\ pc[1] = "returned" /\ op[1] = "get_overview"
                      /\ batch[1].kind = "dict" /\ sidecar = Dumps(batch[1].value, 4)) =>
                     out'[r] = out[1]]_vars

\* C10 witness: the first get_overview computed an overview over files, the
\* second returned the same content without a batch.
C10_Witness ==
    /\ op[1] = "get_overview" /\ pc[1] = "returned"
    /\ InferenceCalls(1) > 0
    /\ op[2] = "get_overview" /\ pc[2] = "returned"
    /\ ~Called(2)
    /\ InferenceCalls(2) = 0
    /\ out[2] = out[1]
    /\ sidecar = Dumps(batch[1].value, 4)

\* The step in which get_overview of request r ends with a result it has
\* computed through map_query_files.
EndsOverviewFresh(r) ==
    /\ pc[r] \in {"idle", "gather"}
    /\ pc'[r] = "returned"
    /\ op'[r] = "get_overview"
    /\ batch'[r].kind = "dict"

\* C11: a get_overview called while the sidecar is present but unparsable
\* deletes it and computes a fresh overview through map_query_files; the
\* call returns the fresh result, and a well-formed sidecar it leaves holds
\* exactly that result.
C11_SelfHealing ==
    [][\A r \in Reqs :
          /\ (InvokesOverview(r) /\ sidecar.state = "corrupt") =>
                 /\ Called(r)'
                 /\ enumerated'[r]
                 /\ pc'[r] = "gather" => sidecar' = NoFile
          /\ EndsOverviewFresh(r) =>
                 /\ out'[r] = JsonOut(batch'[r].value)
                 /\ (sidecar'.state = "json" /\ sidecar' # sidecar) =>
                        sidecar' = Dumps(batch'[r].value, 4)]_vars

\* C11 witness: ls of the root showed a sidecar, which is unparsable; the
\* get_overview that followed made inference calls and left a well-formed
\* sidecar holding its result.
C11_Witness ==
    /\ op[1] = "ls" /\ request[1].path = <<>>
    /\ out[1].kind = "json"
    /\ OVERVIEW_FILENAME \in Range(out[1].json.value)
    /\ op[2] = "get_overview" /\ pc[2] = "returned"
    /\ InferenceCalls(2) > 0
    /\ sidecar = Dumps(batch[2].value, 4)
    /\ out[2] = JsonOut(sidecar.value)

\* The step in which get_overview of request r ends its computation, by a
\* return or by an exception.
EndsOverviewComputation(r) ==
    /\ pc[r] \in {"idle", "gather"}
    /\ pc'[r] \in {"returned", "raised"}
    /\ op'[r] = "get_overview"
    /\ batch'[r].kind # "none"

\* C12: a get_overview that has computed a result returns it whether or not
\* the sidecar could be written; a failed write leaves the sidecar as it was
\* or unparsable, never parsable with other content, and a get_overview
\* called while there is no parsable sidecar computes again.
C12_PersistenceFailure ==
    [][\A r \in Reqs :
          /\ EndsOverviewComputation(r) =>
                 /\ pc'[r] = "returned"
                 /\ out'[r] = JsonOut(batch'[r].value)
                 /\ sidecar' # Dumps(batch'[r].value, 4) =>
                        sidecar' = sidecar \/ ~CanLoad(sidecar')
          /\ (InvokesOverview(r) /\ ~CanLoad(sidecar)) => Called(r)']_vars

\* C12 witness: the first get_overview returned a computed result while no
\* parsable sidecar was left, and a second get_overview is computing with
\* inference calls of its own.
C12_Witness ==
    /\ op[1] = "get_overview" /\ pc[1] = "returned"
    /\ InferenceCalls(1) > 0
    /\ out[1] = JsonOut(batch[1].value)
    /\ ~CanLoad(sidecar)
    /\ op[2] = "get_overview" /\ pc[2] = "gather"
    /\ InferenceCalls(2) > 0

\* C13: the sidecar file name appears in no listing: not among the files of
\* directory_tree, not among the names ls returns for the root, and not
\* among the files a regex tool or get_overview selects from the tree.
C13_SidecarNeverListed ==
    \A r \in Reqs :
        /\ (op[r] = "directory_tree" /\ pc[r] = "returned") =>
               <<OVERVIEW_FILENAME>> \notin Range(out[r].json.value.files)
        /\ (op[r] = "ls" /\ pc[r] = "returned" /\ request[r].path = <<>>
              /\ out[r].kind = "json") =>
               OVERVIEW_FILENAME \notin Range(out[r].json.value)
        /\ (enumerated[r] /\ Called(r)) =>
               /\ <<OVERVIEW_FILENAME>> \notin Range(filenames[r].items)
               /\ SidecarPath \notin Range(target_files[r])

\* C14: the files map_query_tool_regex_sampled passes to map_query_files
\* are distinct members of the filtered set F, at most sample_size of them:
\* exactly sample_size when F has that many, all of F when it has fewer.
C14_SamplingBound ==
    \A r \in Reqs :
        (op[r] = "map_query_tool_regex_sampled" /\ Called(r)) =>
            LET F == Filter(request[r].pat, directory_tree_full(tree, sidecar))
                used == filenames[r].items
                sample_size == request[r].size
            IN /\ Distinct(used)
               /\ Range(used) \subseteq Range(F)
               /\ Len(used) <= sample_size
               /\ Len(F) >= sample_size => Len(used) = sample_size
               /\ Len(F) < sample_size => Len(used) = Len(F)

\* The get_overview requests that have run the overview computation.
OverviewComputations == {r \in Reqs : op[r] = "get_overview" /\ Called(r)}

\* C15: the overview computation runs at most once over all get_overview
\* requests, and once they have all returned, each has returned the content
\* of the sidecar.
C15_ComputedOnce ==
    /\ Cardinality(OverviewComputations) <= 1
    /\ ((\A r \in Reqs : pc[r] # "gather") /\ CanLoad(sidecar)) =>
           \A r \in Reqs : (op[r] = "get_overview" /\ pc[r] = "returned") =>
               out[r] = JsonOut(Loads(sidecar))

\* C15 as amended: a get_overview either returns the result of its own
\* computation or, without computing, the result some get_overview has
\* computed and persisted; a parsable sidecar holds the result of one of the
\* computations.
C15_OwnOrPersisted ==
    /\ \A r \in Reqs : (op[r] = "get_overview" /\ pc[r] # "gather") =>
           /\ pc[r] = "returned"
           /\ IF r \in OverviewComputations
              THEN out[r] = JsonOut(batch[r].value)
              ELSE \E q \in OverviewComputations \ {r} :
                       /\ batch[q].kind = "dict"
                       /\ out[r] = JsonOut(batch[q].value)
    /\ CanLoad(sidecar) =>
           \E q \in OverviewComputations :
               /\ batch[q].kind = "dict"
               /\ sidecar = Dumps(batch[q].value, 4)

\* C15 witness: the first get_overview has returned and persisted its
\* result while the second, called before that write, is still computing
\* with inference calls of its own.
C15_Witness ==
    /\ op[1] = "get_overview" /\ pc[1] = "returned"
    /\ InferenceCalls(1) > 0
    /\ sidecar = Dumps(batch[1].value, 4)
    /\ op[2] = "get_overview" /\ pc[2] = "gather"
    /\ InferenceCalls(2) > 0

\* The inference calls in flight in the whole process, over all batches.
AllInFlight == UNION {{<<r, i>> : i \in InFlight(units[r])} : r \in Reqs}

\* The batches that are running.
RunningBatches == {r \in Reqs : pc[r] = "gather"}

\* C16: over all the batches running at the same time, the number of
\* inference calls in flight is at most MAX_CONCURRENT_TASKS.
C16_ProcessWideCap == Cardinality(AllInFlight) <= MAX_CONCURRENT_TASKS

\* C16 as amended: the cap is per batch, each map_query_files has a
\* semaphore of its own, so the calls in flight over b running batches are
\* at most b times MAX_CONCURRENT_TASKS.
C16_PerBatchCap ==
    /\ Cardinality(AllInFlight)
           <= Cardinality(RunningBatches) * MAX_CONCURRENT_TASKS
    /\ \A r \in Reqs \ RunningBatches : InFlight(units[r]) = {}

\* C16 witness: two batches run at the same time, one of them at its cap,
\* and together they have more calls in flight than MAX_CONCURRENT_TASKS.
C16_Witness ==
    /\ Cardinality(RunningBatches) = 2
    /\ \E r \in RunningBatches :
           Cardinality(InFlight(units[r])) = MAX_CONCURRENT_TASKS
    /\ Cardinality(AllInFlight) > MAX_CONCURRENT_TASKS

\* The permits of the semaphore of batch r that tasks hold.
Held(r) == MAX_CONCURRENT_TASKS - semaphore[r]

\* C17: while a batch runs, the permits out of its semaphore are exactly
\* those of the tasks inside an inference call, whatever the calls before
\* answered; and every batch that runs ends with every task admitted and
\* done and all the permits free.
C17_PermitsConservedAndTerminates ==
    /\ [](\A r \in Reqs : pc[r] = "gather" =>
              Held(r) = Cardinality(InFlight(units[r])))
    /\ \A r \in Reqs :
           (pc[r] = "gather") ~>
               (/\ Ended(r)
                /\ Held(r) = 0
                /\ \A i \in DOMAIN units[r] :
                       units[r][i].st = "done" /\ units[r][i].att >= 1)

\* C17 witness: a batch larger than the cap has ended with all permits
\* free after calls that returned text, an error and an empty answer.
C17_Witness ==
    \E r \in Reqs :
        /\ Ended(r)
        /\ Len(units[r]) > MAX_CONCURRENT_TASKS
        /\ Held(r) = 0
        /\ \A i \in DOMAIN units[r] : units[r][i].st = "done"
        /\ {"ok", "error", "empty"} \subseteq {units[r][i].resp : i \in DOMAIN units[r]}

\* What the task of the i-th target of request r contributes to the result.
OutcomeOf(r, i) ==
    IF units[r][i].res.kind = "raise" THEN TaskFailed ELSE units[r][i].res.value

\* The positions of the names of request r that are existing files.
Existing(r) ==
    {j \in DOMAIN filenames[r].items :
         IsFile(Join(Root, filenames[r].items[j]), tree, sidecar)}

\* C18: in a batch made from an explicit list, every occurrence of an
\* existing path has a unit of work of its own that ran the inference
\* primitive once; the mapping returned has one key per distinct path, and
\* the value of a key is the outcome of the last occurrence of its path.
C18_DuplicatePaths ==
    \A r \in Reqs :
        (op[r] = "map_query_tool" /\ filenames[r].list /\ Ended(r)) =>
            /\ Len(target_files[r]) = Cardinality(Existing(r))
            /\ Len(units[r]) = Len(target_files[r])
            /\ \A i \in DOMAIN units[r] :
                   /\ units[r][i].att = 1
                   /\ Readable(target_files[r][i]) => units[r][i].calls = 1
            /\ (pc[r] = "returned" /\ target_files[r] # <<>>) =>
                   /\ DOMAIN batch[r].value =
                          {RelativeTo(target_files[r][i]) : i \in DOMAIN target_files[r]}
                   /\ \A i \in DOMAIN target_files[r] :
                          (\A j \in DOMAIN target_files[r] :
                               j > i => target_files[r][j] # target_files[r][i]) =>
                              batch[r].value[RelativeTo(target_files[r][i])] = OutcomeOf(r, i)

\* C18 witness: a path given twice, the first call returned text and the
\* second an error; the mapping has the path once, with the error.
C18_Witness ==
    \E r \in Reqs :
        /\ op[r] = "map_query_tool" /\ pc[r] = "returned"
        /\ filenames[r].items = <<FileA, FileC, FileA>>
        /\ Len(units[r]) = 3
        /\ units[r][1].resp = "ok" /\ units[r][3].resp = "error"
        /\ units[r][1].calls = 1 /\ units[r][3].calls = 1
        /\ DOMAIN batch[r].value = {FileA, FileC}
        /\ batch[r].value[FileA] = OutcomeOf(r, 3)
        /\ batch[r].value[FileA] # OutcomeOf(r, 1)

\* C19: a sidecar that parses never holds the error of an empty selection,
\* and no get_overview returns that error from the sidecar without
\* computing.
C19_NoErrorPersisted ==
    /\ CanLoad(sidecar) => Loads(sidecar) # ErrorDict(ErrNoValid)
    /\ \A r \in Reqs :
           (op[r] = "get_overview" /\ pc[r] = "returned" /\ ~Called(r)) =>
               out[r] # JsonOut(ErrorDict(ErrNoValid))

\* C20: directory_tree returns at most MAX_FILES_FOR_DIR_TREE files, and
\* its truncated flag is true exactly when the tree holds more files than
\* the list returned.
C20_TruncatedFlag ==
    \A r \in Reqs :
        (op[r] = "directory_tree" /\ pc[r] = "returned") =>
            LET reply == out[r].json.value
                all == directory_tree_full(tree, sidecar)
            IN /\ Len(reply.files) <= MAX_FILES_FOR_DIR_TREE
               /\ reply.truncated <=> Len(all) > Len(reply.files)

====
